---------------------------- MODULE Spec2Model ----------------------------
(***************************************************************************)
(* Model of the peak suppression, polar binning and scale detection code   *)
(* of nionswift-structure-recognition:                                     *)
(*   scale.py : polar_labels, generate_indices, polar_indices, nms,        *)
(*              ScaleDetectionModule                                       *)
(*   nms.py   : non_maximum_suppresion                                     *)
(*                                                                         *)
(* Arrays are functions over 0-based linear (row-major) indices.  A score  *)
(* is a natural number 0..MaxScore, or one of the two special values       *)
(* PosInf and NaN, which are coded as the two numbers after MaxScore and   *)
(* are only ever read through Lt, IsNaN and IsFinite.                      *)
(***************************************************************************)
EXTENDS Integers, Sequences, FiniteSets, TLC

\* ------------------------------------------------------------- bounds
MaxCells == 4      \* an input array has at most this many elements
MaxScore == 1      \* finite scores are 0..MaxScore
MaxMargin == 2     \* nms margins are 1..MaxMargin
MaxN == 3          \* nms peak counts are 0..MaxN
MaxDistance == 2   \* non_maximum_suppresion distances are 1..MaxDistance
MaxBatch == 2      \* non_maximum_suppresion batch sizes are 1..MaxBatch
MaxSide == 4       \* polar_indices shapes have sides 1..MaxSide
MaxOuter == 3      \* polar_indices outer radii are 1..MaxOuter
MaxAngular == 6    \* polar_indices angular bin counts are the divisors of 12 up to MaxAngular

VARIABLES
    call,        \* which routine this behaviour runs
    pc,          \* position in that routine
    shape,       \* <<rows, cols>> of the score array
    array,       \* nms: the score array, by linear index
    n,           \* nms: requested number of peaks
    margin,      \* nms: margin
    top,         \* nms: argsort result, a sequence of linear indices
    accepted,    \* nms: the (n, 2) result tensor, a sequence of <<row, col>>
    marked,      \* nms: the padded mask, as the set of <<row, col>> that are True
    i,           \* nms: loop index into top
    j,           \* nms: number of accepted peaks
    density,     \* non_maximum_suppresion: per batch item, the scores by linear index
    distance,    \* non_maximum_suppresion: disc radius
    threshold,   \* non_maximum_suppresion: score cutoff
    order,       \* non_maximum_suppresion: argsort result of the current item
    item,        \* non_maximum_suppresion: outer loop index (batch item)
    pos,         \* non_maximum_suppresion: how many entries of order were visited
    dAccepted,   \* non_maximum_suppresion: accepted array, the set of <<item, index>> that are True
    suppressed,  \* non_maximum_suppresion: suppressed array, likewise

    crystal_system,    \* ScaleDetectionModule.crystal_system
    lattice_constant,  \* ScaleDetectionModule.lattice_constant
    min_sampling,      \* ScaleDetectionModule.min_sampling
    combo_item,        \* current item of the crystal system combo box
    lattice_text,      \* text of the lattice constant line edit
    sampling_text,     \* text of the min. sampling line edit
    outcome,           \* how the last method call of the module ended
    inner,             \* polar_indices: inner radius
    outer,             \* polar_indices: outer radius
    nbins_angular,     \* polar_indices: number of angular bins
    labels,            \* polar_indices: bin id of every pixel, -1 when it has none
    indices,           \* polar_indices: per row, nbins_angular pixel indices
    weights,           \* polar_indices: per row, nbins_angular weights <<numerator, denominator>>
    lengths,           \* polar_indices: per row, the number of pixels of the bin
    nradial,           \* polar_indices: size of the middle axis after the reshape
    col,               \* polar_indices: loop index i of the fill loop
    result             \* polar_indices: the returned (indices, weights), or the exception raised

nmsVars == <<array, n, margin, top, accepted, marked, i, j>>
densityVars == <<density, distance, threshold, order, item, pos, dAccepted, suppressed>>
moduleVars == <<crystal_system, lattice_constant, min_sampling, combo_item,
                lattice_text, sampling_text, outcome>>
polarVars == <<inner, outer, nbins_angular, labels, indices, weights, lengths, nradial, col, result>>
otherVars == <<moduleVars, polarVars>>
vars == <<call, pc, shape, nmsVars, densityVars, moduleVars, polarVars>>

\* ------------------------------------------------------------- scores
PosInf == MaxScore + 1
NaN == MaxScore + 2
Finite == 0..MaxScore
Scores == Finite \cup {PosInf, NaN}

IsNaN(s) == s = NaN
IsFinite(s) == s \in Finite
\* IEEE comparison: every comparison with NaN is false
Lt(a, b) == ~IsNaN(a) /\ ~IsNaN(b) /\ a < b

\* ------------------------------------------------------------- shapes
Shapes == {s \in (1..MaxCells) \X (1..MaxCells) : s[1] * s[2] <= MaxCells}
Numel(s) == s[1] * s[2]
Cells(s) == 0..(Numel(s) - 1)

\* the variables of a routine this behaviour does not run
IdleNms ==
    /\ array = <<>> /\ n = 0 /\ margin = 0 /\ top = <<>>
    /\ accepted = <<>> /\ marked = {} /\ i = 0 /\ j = 0
IdleDensity ==
    /\ density = <<>> /\ distance = 0 /\ threshold = 0 /\ order = <<>>
    /\ item = 0 /\ pos = 0 /\ dAccepted = {} /\ suppressed = {}

IdleModule ==
    /\ crystal_system = "None" /\ lattice_constant = "None" /\ min_sampling = "None"
    /\ combo_item = "" /\ lattice_text = "" /\ sampling_text = ""
    /\ outcome = <<>>

IdlePolar ==
    /\ inner = 0 /\ outer = 0 /\ nbins_angular = 0 /\ labels = <<>> /\ indices = <<>>
    /\ weights = <<>> /\ lengths = <<>> /\ nradial = 0 /\ col = 0 /\ result = <<>>

RECURSIVE Descending(_, _)
\* every ordering of the indices S in which the keys never increase
Descending(key, S) ==
    IF S = {} THEN {<<>>}
    ELSE UNION {{<<x>> \o rest : rest \in Descending(key, S \ {x})} :
                x \in {m \in S : \A o \in S : key[o] <= key[m]}}

\* ------------------------------------------------------------- nms (scale.py)
\* torch.argsort(array.view(-1), descending=True): NaN counts as the greatest
\* value; the order among equal values is not specified (the sort is not
\* stable), so every descending order is a possible result.
TorchKey(s) == IF IsNaN(s) THEN PosInf + 1 ELSE s

TorchArgsortDescending(a) == Descending([x \in DOMAIN a |-> TorchKey(a[x])], DOMAIN a)

\* Python slice lo:hi of an axis of length len, as a set of indices
PyIndex(k, len) == IF k < 0 THEN (IF k + len < 0 THEN 0 ELSE k + len)
                   ELSE (IF k > len THEN len ELSE k)
PySlice(lo, hi, len) == {k \in 0..(len - 1) : PyIndex(lo, len) <= k /\ k < PyIndex(hi, len)}

PadRows == shape[1] + 2 * margin
PadCols == shape[2] + 2 * margin

\* idx = (top[i] // array.shape[1], top[i] % array.shape[1])
Idx(lin) == <<lin \div shape[2], lin % shape[2]>>

\* the square written over the mask instead of into it
MarkSquareOverwrite(mk, idx) ==
    PySlice(idx[1], idx[1] + 2 * margin, PadRows) \X PySlice(idx[2], idx[2] + 2 * margin, PadCols)

\* marked[idx[0]:idx[0] + 2 * margin, idx[1]:idx[1] + 2 * margin] = True
MarkSquare(mk, idx) ==
    mk \cup (PySlice(idx[1], idx[1] + 2 * margin, PadRows)
             \X PySlice(idx[2], idx[2] + 2 * margin, PadCols))

\* dst rows lo1:hi1 += src rows lo2:hi2 (logical or on a bool tensor), row by row
AddRows(mk, lo1, hi1, lo2, hi2) ==
    LET dst == PySlice(lo1, hi1, PadRows)
        src == PySlice(lo2, hi2, PadRows)
        d0 == IF dst = {} THEN 0 ELSE CHOOSE k \in dst : \A l \in dst : k <= l
        s0 == IF src = {} THEN 0 ELSE CHOOSE k \in src : \A l \in src : k <= l
    IN mk \cup {<<r - s0 + d0, c>> : <<r, c>> \in {q \in mk : q[1] \in src}}

\* marked[margin:2 * margin] += marked[-margin:]
WrapBottom(mk) == AddRows(mk, margin, 2 * margin, -margin, PadRows)
\* the second row addition left out
WrapTopOmitted(mk) == mk

\* marked[-2 * margin:-margin] += marked[:margin]
WrapTop(mk) == AddRows(mk, -2 * margin, -margin, 0, margin)

Mark(mk, idx) == WrapTop(WrapBottom(MarkSquare(mk, idx)))

IsMarked(mk, idx) == <<idx[1] + margin, idx[2] + margin>> \in mk

\* i += 1; if i >= torch.numel(array) - 1: break
AfterStep(i2) == IF i2 >= Numel(shape) - 1 THEN "done" ELSE "loop"

\* a call nms(array, n, margin).  Margins start at 1 (with margin 0 the first
\* row addition adds the whole mask to an empty slice) and do not exceed the
\* number of rows (the two in-place row additions would otherwise read and
\* write the same rows).
InitNms ==
    /\ call = "nms"
    /\ shape \in Shapes
    /\ array \in [Cells(shape) -> Scores]
    /\ margin \in 1..MaxMargin
    /\ shape[1] >= margin
    /\ n \in 0..MaxN
    /\ top = <<>>
    /\ accepted = <<>>
    /\ marked = {}
    /\ i = 0
    /\ j = 0
    /\ pc = "start"
    /\ IdleDensity
    /\ IdleModule
    /\ IdlePolar

\* top = argsort(...); accepted = zeros((n, 2)); marked = zeros(...); i = 0; j = 0
NmsBegin ==
    /\ call = "nms" /\ pc = "start"
    /\ top' \in TorchArgsortDescending(array)
    /\ accepted' = [k \in 1..n |-> <<0, 0>>]
    /\ marked' = {}
    /\ i' = 0
    /\ j' = 0
    /\ pc' = "loop"
    /\ UNCHANGED <<call, shape, array, n, margin, densityVars, otherVars>>

NmsAccept ==
    /\ call = "nms" /\ pc = "loop" /\ j < n
    /\ ~IsMarked(marked, Idx(top[i + 1]))
    /\ marked' = Mark(marked, Idx(top[i + 1]))
    /\ accepted' = [accepted EXCEPT ![j + 1] = Idx(top[i + 1])]
    /\ j' = j + 1
    /\ i' = i + 1
    /\ pc' = AfterStep(i + 1)
    /\ UNCHANGED <<call, shape, array, n, margin, top, densityVars, otherVars>>

NmsSkip ==
    /\ call = "nms" /\ pc = "loop" /\ j < n
    /\ IsMarked(marked, Idx(top[i + 1]))
    /\ i' = i + 1
    /\ pc' = AfterStep(i + 1)
    /\ UNCHANGED <<call, shape, array, n, margin, top, accepted, marked, j, densityVars, otherVars>>

NmsExit ==
    /\ call = "nms" /\ pc = "loop" /\ j >= n
    /\ pc' = "done"
    /\ UNCHANGED <<call, shape, nmsVars, densityVars, otherVars>>

NextNms == NmsBegin \/ NmsAccept \/ NmsSkip \/ NmsExit

SpecNms == InitNms /\ [][NextNms]_vars

\* ------------------------------------------------------------- non_maximum_suppresion (nms.py)
\* The classes and probabilities arrays are left out: nothing the routine
\* writes to accepted or suppressed reads them.
\* density has shape (batch, 1, rows, cols) and at most MaxCells elements
Batches(s) == {b \in 1..MaxBatch : b * Numel(s) <= MaxCells}

\* np.argsort(-density[i].ravel()): ascending in the negated score, NaN last;
\* the default sort kind is not stable, so equal scores come in any order.
NumpyKey(s) == IF IsNaN(s) THEN -1 ELSE s
NumpyArgsortNegated(a) == Descending([x \in DOMAIN a |-> NumpyKey(a[x])], DOMAIN a)

\* utils.ind2sub(shape, j) and utils.sub2ind(x, y, shape): row-major
ind2sub(s, lin) == <<lin \div s[2], lin % s[2]>>
sub2ind(x, y, s) == x * s[2] + y

\* x_disc, y_disc after the r2 < distance ** 2 selection, as offset pairs
Disc(d) == {o \in (-d..d) \X (-d..d) : o[1] * o[1] + o[2] * o[2] < d * d}

\* the validity test without its last comparison
ValidWithoutColumnLimit(nx, ny) == nx > -1 /\ ny > -1 /\ nx < shape[1]

\* valid = (neighbors_x > -1) & (neighbors_y > -1) & (neighbors_x < shape[0]) & (neighbors_y < shape[1])
Valid(nx, ny) == nx > -1 /\ ny > -1 /\ nx < shape[1] /\ ny < shape[2]

\* k: the linear indices of the valid neighbours of linear index lin
Neighbors(lin) ==
    LET xy == ind2sub(shape, lin)
    IN {sub2ind(xy[1] + o[1], xy[2] + o[2], shape) :
        o \in {q \in Disc(distance) : Valid(xy[1] + q[1], xy[2] + q[2])}}

\* suppressed[i][density[i] < threshold] = True
BelowThreshold(it) == {<<it, x>> : x \in {c \in Cells(shape) : Lt(density[it][c], threshold)}}

InitDensity ==
    /\ call = "non_maximum_suppresion"
    /\ shape \in Shapes
    /\ \E b \in Batches(shape) : density \in [0..(b - 1) -> [Cells(shape) -> Scores]]
    /\ distance \in 1..MaxDistance
    /\ threshold \in Finite
    /\ order = <<>>
    /\ item = 0
    /\ pos = 0
    /\ dAccepted = {}
    /\ suppressed = {}
    /\ pc = "item"
    /\ IdleNms
    /\ IdleModule
    /\ IdlePolar

\* for i in range(density.shape[0]): threshold marking, then the argsort
DensityBegin ==
    /\ call = "non_maximum_suppresion" /\ pc = "item"
    /\ item < Cardinality(DOMAIN density)
    /\ suppressed' = suppressed \cup BelowThreshold(item)
    /\ order' \in NumpyArgsortNegated(density[item])
    /\ pos' = 0
    /\ pc' = "scan"
    /\ UNCHANGED <<call, shape, nmsVars, otherVars, density, distance, threshold, item, dAccepted>>

DensityAccept ==
    /\ call = "non_maximum_suppresion" /\ pc = "scan"
    /\ pos < Len(order)
    /\ <<item, order[pos + 1]>> \notin suppressed
    /\ dAccepted' = dAccepted \cup {<<item, order[pos + 1]>>}
    /\ suppressed' = suppressed \cup {<<item, k>> : k \in Neighbors(order[pos + 1])}
    /\ pos' = pos + 1
    /\ UNCHANGED <<call, pc, shape, nmsVars, otherVars, density, distance, threshold, order, item>>

DensitySkip ==
    /\ call = "non_maximum_suppresion" /\ pc = "scan"
    /\ pos < Len(order)
    /\ <<item, order[pos + 1]>> \in suppressed
    /\ pos' = pos + 1
    /\ UNCHANGED <<call, pc, shape, nmsVars, otherVars, density, distance, threshold, order, item,
                   dAccepted, suppressed>>

DensityNextItem ==
    /\ call = "non_maximum_suppresion" /\ pc = "scan"
    /\ pos = Len(order)
    /\ item' = item + 1
    /\ pc' = "item"
    /\ UNCHANGED <<call, shape, nmsVars, otherVars, density, distance, threshold, order, pos,
                   dAccepted, suppressed>>

DensityReturn ==
    /\ call = "non_maximum_suppresion" /\ pc = "item"
    /\ item = Cardinality(DOMAIN density)
    /\ pc' = "done"
    /\ UNCHANGED <<call, shape, nmsVars, densityVars, otherVars>>

NextDensity == DensityBegin \/ DensityAccept \/ DensitySkip \/ DensityNextItem \/ DensityReturn

SpecDensity == InitDensity /\ [][NextDensity]_vars

\* ------------------------------------------------------------- ScaleDetectionModule (scale.py)
\* Python's None is written "None", the text format() prints for it; no
\* widget text below is that string.
None == "None"

\* what the combo box can hold: the item it offers, the preset's value, and
\* items a later version of the widget could offer
ComboItems == {"Hexagonal", "hexagonal", "HEXAGONAL", "Cubic"}
\* what the line edits can hold: a number, or text float() rejects
LatticeTexts == {"2.46", "abc"}
SamplingTexts == {"0.015", ""}
\* the images handed to detect_scale, by shape
DataShapes == {<<4, 4>>, <<4, 6>>}

\* str.lower() on the combo items
Lower(t) ==
    CASE t = "Hexagonal" -> "hexagonal"
      [] t = "HEXAGONAL" -> "hexagonal"
      [] t = "Cubic" -> "cubic"
      [] OTHER -> t

\* float() on the line edit texts, in thousandths; "ValueError" when it raises
Float(t) ==
    CASE t = "2.46" -> 2460
      [] t = "0.015" -> 15
      [] OTHER -> "ValueError"
FloatRaises(t) == t \notin {"2.46", "0.015"}

\* 'structure {} not recognized for scale recognition'.format(self.crystal_system)
NotRecognized(cs) == <<"structure ", cs, " not recognized for scale recognition">>

\* a selector list that also lets 'cubic' through
RecognizedWithCubic(cs) == cs \in {"hexagonal", "cubic"}

\* self.crystal_system not in ['hexagonal'], negated
Recognized(cs) == cs \in {"hexagonal"}

Raised(kind, msg) ==
    [kind |-> "raised", op |-> "fetch_parameters", error |-> kind, message |-> msg, called |-> FALSE]

InitModule ==
    /\ call = "ScaleDetectionModule"
    /\ pc = "idle"
    /\ shape = <<1, 1>>
    /\ crystal_system = None
    /\ lattice_constant = None
    /\ min_sampling = "unset"
    /\ combo_item = "Hexagonal"
    /\ lattice_text = ""
    /\ sampling_text = ""
    /\ outcome = <<>>
    /\ IdleNms
    /\ IdleDensity
    /\ IdlePolar

\* set_preset('graphene')
SetPreset ==
    /\ call = "ScaleDetectionModule"
    /\ combo_item' = "hexagonal"
    /\ lattice_text' = "2.46"
    /\ sampling_text' = "0.015"
    /\ outcome' = [kind |-> "returned", op |-> "set_preset"]
    /\ UNCHANGED <<call, pc, shape, nmsVars, densityVars, polarVars,
                   crystal_system, lattice_constant, min_sampling>>

\* the user changes a widget
UserEdits ==
    /\ call = "ScaleDetectionModule"
    /\ combo_item' \in ComboItems
    /\ lattice_text' \in LatticeTexts
    /\ sampling_text' \in SamplingTexts
    /\ UNCHANGED <<call, pc, shape, nmsVars, densityVars, polarVars,
                   crystal_system, lattice_constant, min_sampling, outcome>>

\* fetch_parameters(): the three assignments in order, the first float() that
\* raises ends the call
FetchParameters ==
    /\ call = "ScaleDetectionModule"
    /\ crystal_system' = Lower(combo_item)
    /\ lattice_constant' = IF FloatRaises(lattice_text) THEN lattice_constant
                           ELSE Float(lattice_text)
    /\ min_sampling' = IF FloatRaises(lattice_text) \/ FloatRaises(sampling_text)
                       THEN min_sampling ELSE Float(sampling_text)
    /\ outcome' = IF FloatRaises(lattice_text) THEN Raised("ValueError", <<lattice_text>>)
                  ELSE IF FloatRaises(sampling_text) THEN Raised("ValueError", <<sampling_text>>)
                  ELSE [kind |-> "returned", op |-> "fetch_parameters"]
    /\ UNCHANGED <<call, pc, shape, nmsVars, densityVars, polarVars,
                   combo_item, lattice_text, sampling_text>>

\* detect_scale(data), crystal system not recognized: raise RuntimeError
DetectScaleRaises ==
    /\ call = "ScaleDetectionModule"
    /\ ~Recognized(crystal_system)
    /\ outcome' = [kind |-> "raised", op |-> "detect_scale", error |-> "RuntimeError",
                   message |-> NotRecognized(crystal_system), called |-> FALSE]
    /\ UNCHANGED <<call, pc, shape, nmsVars, densityVars, polarVars, crystal_system,
                   lattice_constant, min_sampling, combo_item, lattice_text, sampling_text>>

\* detect_scale(data), crystal system recognized: find_hexagonal_sampling is
\* called; it raises for a non-square image, and otherwise raises
\* 'min. sampling too large' or returns a scale (here the number 1 stands
\* for whatever scale the spectrum yields)
DetectScaleCalls ==
    /\ call = "ScaleDetectionModule"
    /\ Recognized(crystal_system)
    /\ \E data \in DataShapes :
          \/ /\ data[1] # data[2]
             /\ outcome' = [kind |-> "raised", op |-> "detect_scale", error |-> "RuntimeError",
                            message |-> <<"square image required">>, called |-> TRUE]
          \/ /\ data[1] = data[2]
             /\ outcome' \in {[kind |-> "raised", op |-> "detect_scale", error |-> "RuntimeError",
                                message |-> <<"min. sampling too large">>, called |-> TRUE],
                               [kind |-> "returned", op |-> "detect_scale", scale |-> 1,
                                called |-> TRUE]}
    /\ UNCHANGED <<call, pc, shape, nmsVars, densityVars, polarVars, crystal_system,
                   lattice_constant, min_sampling, combo_item, lattice_text, sampling_text>>

NextModule == SetPreset \/ UserEdits \/ FetchParameters \/ DetectScaleRaises \/ DetectScaleCalls

SpecModule == InitModule /\ [][NextModule]_vars

\* ------------------------------------------------------------- polar_labels, generate_indices, polar_indices (scale.py)
\* Angular bins are exact in integer arithmetic when nbins_angular divides 12:
\* the bin borders are then multiples of 30 degrees, and a pixel offset (a, b)
\* lies on a border only on an axis, where the float quotient is exact.
AngularCounts == {b \in 1..MaxAngular : 12 % b = 0}
PolarShapes == (1..MaxSide) \X (1..MaxSide)

Isqrt(q) == CHOOSE r \in 0..q : r * r <= q /\ q < (r + 1) * (r + 1)

\* which third of a quadrant: p is the side opposite the angle, q the adjacent
Third(p, q) == IF 3 * p * p < q * q THEN 0 ELSE IF p * p < 3 * q * q THEN 1 ELSE 2

\* floor(12 * (arctan2(a, b) % 2 pi) / (2 pi))
Sector12(a, b) ==
    CASE a = 0 /\ b >= 0 -> 0
      [] a = 0 /\ b < 0 -> 6
      [] a > 0 /\ b = 0 -> 3
      [] a < 0 /\ b = 0 -> 9
      [] a > 0 /\ b > 0 -> Third(a, b)
      [] a > 0 /\ b < 0 -> 3 + Third(-b, a)
      [] a < 0 /\ b < 0 -> 6 + Third(-a, -b)
      [] a < 0 /\ b > 0 -> 9 + Third(b, -a)

\* nbins_radial = outer - inner
NbinsRadial == outer - inner

\* polar_labels: the bin id of pixel p = X * sy + Y.  r = hypot(X - sx / 2,
\* Y - sy / 2) is compared through 4 r^2; the angle is taken about
\* (sx // 2, sy // 2).
PolarLabel(p) ==
    LET X == p \div shape[2]
        Y == p % shape[2]
        q4 == (2 * X - shape[1]) * (2 * X - shape[1]) + (2 * Y - shape[2]) * (2 * Y - shape[2])
        valid == 4 * inner * inner < q4 /\ q4 < 4 * outer * outer
        radial_bin == (Isqrt(q4) \div 2) - inner
        angular_bin == Sector12(X - (shape[1] \div 2), Y - (shape[2] \div 2))
                          \div (12 \div nbins_angular)
    IN IF valid THEN angular_bin * NbinsRadial + radial_bin ELSE -1

SetMax(S) == CHOOSE m \in S : \A x \in S : x <= m
SetMin(S) == CHOOSE m \in S : \A x \in S : m <= x

RECURSIVE Ascending(_)
\* np.sort of a set of integers, as a sequence
Ascending(S) == IF S = {} THEN <<>> ELSE <<SetMin(S)>> \o Ascending(S \ {SetMin(S)})

\* generate_indices(labels, first_label=0): for label lab, the sorted pixels
Members(lab) == Ascending({p \in DOMAIN labels : labels[p] = lab})

\* labels.max() + 1
NumRows == SetMax({labels[p] : p \in DOMAIN labels}) + 1

Pad(seq, len, fill) == [k \in 1..len |-> IF k <= Len(seq) THEN seq[k] ELSE fill]
Zero == <<0, 1>>

\* a call polar_indices(shape, inner, outer, nbins_angular)
InitPolar ==
    /\ call = "polar_indices"
    /\ pc = "start"
    /\ shape \in PolarShapes
    /\ outer \in 1..MaxOuter
    /\ inner \in 0..(outer - 1)
    /\ nbins_angular \in AngularCounts
    /\ labels = <<>> /\ indices = <<>> /\ weights = <<>> /\ lengths = <<>>
    /\ nradial = 0 /\ col = 0 /\ result = <<>>
    /\ IdleNms
    /\ IdleDensity
    /\ IdleModule

\* labels = polar_labels(shape, inner=inner, outer=outer, nbins_angular=nbins_angular)
PolarLabels ==
    /\ call = "polar_indices" /\ pc = "start"
    /\ labels' = [p \in 0..(shape[1] * shape[2] - 1) |-> PolarLabel(p)]
    /\ pc' = "collect"
    /\ UNCHANGED <<call, shape, nmsVars, densityVars, moduleVars, inner, outer, nbins_angular,
                   indices, weights, lengths, nradial, col, result>>

\* the three zeros(...) arrays and the loop over generate_indices; a bin with
\* more than nbins_angular pixels does not fit its row (ValueError)
Collect ==
    /\ call = "polar_indices" /\ pc = "collect"
    /\ IF \E lab \in 0..(NumRows - 1) : Len(Members(lab)) > nbins_angular
       THEN /\ pc' = "error" /\ result' = "ValueError"
            /\ UNCHANGED <<indices, weights, lengths>>
       ELSE /\ pc' = "reshape" /\ result' = result
            /\ indices' = [lab \in 0..(NumRows - 1) |-> Pad(Members(lab), nbins_angular, 0)]
            /\ weights' = [lab \in 0..(NumRows - 1) |->
                             Pad([k \in 1..Len(Members(lab)) |-> <<1, Len(Members(lab))>>],
                                 nbins_angular, Zero)]
            /\ lengths' = [lab \in 0..(NumRows - 1) |-> Len(Members(lab))]
    /\ UNCHANGED <<call, shape, nmsVars, densityVars, moduleVars, inner, outer, nbins_angular,
                   labels, nradial, col>>

\* the three reshape calls: the row count must be a positive multiple of
\* nbins_angular (ValueError otherwise)
Reshape ==
    /\ call = "polar_indices" /\ pc = "reshape"
    /\ IF NumRows = 0 \/ NumRows % nbins_angular # 0
       THEN /\ pc' = "error" /\ result' = "ValueError" /\ nradial' = nradial
       ELSE /\ pc' = "fill" /\ result' = result /\ nradial' = NumRows \div nbins_angular
    /\ col' = 0
    /\ UNCHANGED <<call, shape, nmsVars, densityVars, moduleVars, inner, outer, nbins_angular,
                   labels, indices, weights, lengths>>

\* row of the flat arrays that entry [a, r] of the reshaped arrays reads
RowOf(a, r) == a * nradial + r

\* k = np.where(nans[:, i] == 0)[0] and np.where(nans[:, i])[0]
NonEmpty(r) == {a \in 0..(nbins_angular - 1) : lengths[RowOf(a, r)] > 0}
Empty(r) == {a \in 0..(nbins_angular - 1) : lengths[RowOf(a, r)] = 0}

Abs(x) == IF x < 0 THEN -x ELSE x
Min(x, y) == IF x < y THEN x ELSE y

\* the two neighbours of empty angular bin a in radial column r, and what the
\* loop body writes into its row
Fill(a, r) ==
    LET k == Ascending(NonEmpty(r))
        bisect == Cardinality({x \in NonEmpty(r) : x < a})
        idx == bisect % Len(k)
        before == k[IF idx = 0 THEN Len(k) ELSE idx]
        after == k[idx + 1]
        l1 == lengths[RowOf(before, r)]
        l2 == lengths[RowOf(after, r)]
        end == Min(l1 + l2, nbins_angular)
        d1 == Min(Abs(before - a), Abs(nbins_angular - before + a))
        d2 == Min(Abs(after - a), Abs(-nbins_angular - after + a))
        total == l1 * d2 + (end - l1) * d1
    IN [fits |-> l1 + l2 <= nbins_angular \/ l2 = 1,
        indices |-> [c \in 1..nbins_angular |->
                        IF c <= l1 THEN indices[RowOf(before, r)][c]
                        ELSE IF c <= end THEN indices[RowOf(after, r)][c - l1]
                        ELSE indices[RowOf(a, r)][c]],
        weights |-> [c \in 1..nbins_angular |->
                        IF c <= l1 THEN <<d2, total>>
                        ELSE IF c <= end THEN <<d1, total>>
                        ELSE weights[RowOf(a, r)][c]]]

\* one pass of "for i in range(indices.shape[0])", i = col
FillColumn ==
    /\ call = "polar_indices" /\ pc = "fill"
    /\ col < nbins_angular
    /\ IF col >= nradial
       THEN /\ pc' = "error" /\ result' = "IndexError"
            /\ UNCHANGED <<indices, weights, col>>
       ELSE IF Empty(col) # {} /\ NonEmpty(col) = {}
       THEN /\ pc' = "error" /\ result' = "ZeroDivisionError"
            /\ UNCHANGED <<indices, weights, col>>
       ELSE IF \E a \in Empty(col) : ~Fill(a, col).fits
       THEN /\ pc' = "error" /\ result' = "ValueError"
            /\ UNCHANGED <<indices, weights, col>>
       ELSE /\ indices' = [row \in DOMAIN indices |->
                             IF row % nradial = col /\ (row \div nradial) \in Empty(col)
                             THEN Fill(row \div nradial, col).indices ELSE indices[row]]
            /\ weights' = [row \in DOMAIN weights |->
                             IF row % nradial = col /\ (row \div nradial) \in Empty(col)
                             THEN Fill(row \div nradial, col).weights ELSE weights[row]]
            /\ col' = col + 1
            /\ UNCHANGED <<pc, result>>
    /\ UNCHANGED <<call, shape, nmsVars, densityVars, moduleVars, inner, outer, nbins_angular,
                   labels, lengths, nradial>>

\* indices[:, :, :np.max(lengths)], weights[:, :, :np.max(lengths)]; return
Trim ==
    /\ call = "polar_indices" /\ pc = "fill"
    /\ col = nbins_angular
    /\ LET longest == SetMax({lengths[row] : row \in DOMAIN lengths})
       IN result' = [bin \in (0..(nbins_angular - 1)) \X (0..(nradial - 1)) |->
                        [c \in 1..longest |->
                            [index |-> indices[RowOf(bin[1], bin[2])][c],
                             weight |-> weights[RowOf(bin[1], bin[2])][c]]]]
    /\ pc' = "done"
    /\ UNCHANGED <<call, shape, nmsVars, densityVars, moduleVars, inner, outer, nbins_angular,
                   labels, indices, weights, lengths, nradial, col>>

NextPolar == PolarLabels \/ Collect \/ Reshape \/ FillColumn \/ Trim

SpecPolar == InitPolar /\ [][NextPolar]_vars

\* both suppression routines, one of them per behaviour
InitSupp == InitNms \/ InitDensity
NextSupp == NextNms \/ NextDensity
SpecSupp == InitSupp /\ [][NextSupp]_vars

\* ------------------------------------------------------------- claims: nms (scale.py)
Row(c) == c \div shape[2]
Col(c) == c % shape[2]
Lin(idx) == idx[1] * shape[2] + idx[2]
\* the peaks written by an accepting step of nms, and the positions examined
AcceptedPeaks == {accepted[k] : k \in 1..j}
Examined == {top[k] : k \in 1..i}
NmsRuns == call = "nms"
NmsDone == call = "nms" /\ pc = "done"

\* the padded mask entries set by accepting peak p on an empty mask
RegionOf(p) == Mark({}, p)

\* C1: with margin >= 1, no accepted peak of nms lies inside the region that
\* was marked when another accepted peak was accepted, whichever of the two
\* was accepted first.
C1_NoPeakInOtherRegion ==
    NmsRuns => \A a, b \in 1..j : a # b => ~IsMarked(RegionOf(accepted[b]), accepted[a])

\* C3: when nms ends, every entry of its result is a position that an
\* accepting step wrote: no default (0, 0) row stands in for a missing peak.
C3_ResultHoldsOnlyAcceptedPeaks ==
    NmsDone => \A k \in DOMAIN accepted : accepted[k] \in AcceptedPeaks

\* C8: nms ends with fewer than n peaks only after every position of the
\* array was examined, and then each position is accepted or marked.
C8_ShortResultOnlyAfterFullScan ==
    (NmsDone /\ j < n) =>
        \A c \in Cells(shape) :
            /\ c \in Examined
            /\ (Idx(c) \in AcceptedPeaks \/ IsMarked(marked, Idx(c)))

\* <<x, y>> lies in the margin square of peak p, periodic along axis 0 and
\* cut off along axis 1
InWrappedSquare(p, x, y) ==
    /\ y - p[2] >= -margin /\ y - p[2] < margin
    /\ ((x - p[1] + margin) % shape[1]) < 2 * margin

\* C9: with margin m >= 1 and at least 2*m rows, the suppressed positions of
\* the array are exactly those in the margin square of an accepted peak taken
\* periodically along axis 0 (rows past one edge come back at the other, same
\* columns) and cut off at the array edge along axis 1.
C9_PeriodicRowsClippedCols ==
    (NmsRuns /\ shape[1] >= 2 * margin) =>
        \A c \in Cells(shape) :
            IsMarked(marked, Idx(c)) <=>
                \E p \in AcceptedPeaks : InWrappedSquare(p, Row(c), Col(c))

\* a peak in the first row and first column was accepted: its square reaches
\* past row 0 and column 0, the last row is suppressed in column 0 and the
\* last column is not
C9_Witness ==
    /\ NmsRuns /\ shape[1] >= 2 * margin /\ shape[2] >= 2 * margin
    /\ AcceptedPeaks = {<<0, 0>>}
    /\ IsMarked(marked, <<shape[1] - 1, 0>>)
    /\ ~IsMarked(marked, <<shape[1] - 1, shape[2] - 1>>)

\* ------------------------------------------------------------- claims: non_maximum_suppresion
DensityRuns == call = "non_maximum_suppresion"
\* squared distance of two linear indices of the density map
Dist2(a, b) == (Row(a) - Row(b)) * (Row(a) - Row(b)) + (Col(a) - Col(b)) * (Col(a) - Col(b))
\* the inner loop of batch item it has visited every position
ItemFinished(it) == it < item \/ (it = item /\ pc = "scan" /\ pos = Numel(shape))

\* C2: with distance d >= 1, no two accepted positions of one batch item are
\* closer than d (dx^2 + dy^2 < d^2), and once an item is finished each of its
\* positions that is not accepted has density below threshold or lies within
\* that disc of an accepted position of the item.
C2_NonOverlapAndCovered ==
    DensityRuns =>
        /\ \A p, q \in dAccepted :
              (p[1] = q[1] /\ p[2] # q[2]) => Dist2(p[2], q[2]) >= distance * distance
        /\ \A it \in DOMAIN density : ItemFinished(it) =>
              \A c \in Cells(shape) : <<it, c>> \notin dAccepted =>
                  \/ Lt(density[it][c], threshold)
                  \/ \E p \in dAccepted :
                        p[1] = it /\ Dist2(p[2], c) < distance * distance

\* a finished two-item batch in which one item has an accepted peak, a
\* position suppressed by that peak's disc and the other item a position
\* below threshold
C2_Witness ==
    /\ DensityRuns /\ pc = "done" /\ distance >= 2
    /\ \E p \in dAccepted : \E c \in Cells(shape) :
          /\ <<p[1], c>> \notin dAccepted
          /\ ~Lt(density[p[1]][c], threshold)
    /\ \E it \in DOMAIN density : \E c \in Cells(shape) : Lt(density[it][c], threshold)

\* ------------------------------------------------------------- claims: both routines
\* C5: a position whose score is NaN or infinite is never accepted, neither
\* by nms nor by non_maximum_suppresion.
C5_NonFiniteNeverAccepted ==
    /\ NmsRuns => \A p \in AcceptedPeaks : IsFinite(array[Lin(p)])
    /\ DensityRuns => \A p \in dAccepted : IsFinite(density[p[1]][p[2]])

\* seq visits equal scores in ascending linear index
TiesAscending(seq, a) ==
    \A x, y \in DOMAIN seq : (x < y /\ a[seq[x]] = a[seq[y]]) => seq[x] < seq[y]

\* C6: both routines visit the candidates in descending score order with
\* equal scores in ascending linear index.
C6_TiesByAscendingIndex ==
    /\ (NmsRuns /\ pc # "start") => TiesAscending(top, array)
    /\ (DensityRuns /\ pc = "scan") => TiesAscending(order, density[item])

\* C10: no step of either routine removes a position from the mask, and the
\* mask changes only on a step that accepts a peak or, in
\* non_maximum_suppresion, on the threshold marking that starts an item.
C10_Step ==
    /\ marked \subseteq marked'
    /\ suppressed \subseteq suppressed'
    /\ marked' # marked => j' = j + 1
    /\ suppressed' # suppressed =>
          \/ Cardinality(dAccepted') = Cardinality(dAccepted) + 1
          \/ (pc = "item" /\ pc' = "scan")
C10_MaskNeverShrinks == [][C10_Step]_vars

\* a second peak was accepted by nms and enlarged a mask that was not empty
C10_Witness == NmsRuns /\ j >= 2 /\ Cardinality(marked) > 4 * margin * margin

\* ------------------------------------------------------------- claims: ScaleDetectionModule
\* C7: a detect_scale call made while crystal_system is not 'hexagonal'
\* ends in an error whose message names crystal_system, without a call of
\* find_hexagonal_sampling and without a scale.
C7_UnrecognizedSystemRaises ==
    (call = "ScaleDetectionModule" /\ outcome # <<>> /\ outcome.op = "detect_scale"
        /\ crystal_system # "hexagonal") =>
        /\ outcome.kind = "raised"
        /\ outcome.error = "RuntimeError"
        /\ outcome.message[2] = crystal_system
        /\ ~outcome.called

\* detect_scale has been called after fetch_parameters read 'Cubic'
C7_Witness ==
    /\ call = "ScaleDetectionModule" /\ outcome # <<>> /\ outcome.op = "detect_scale"
    /\ crystal_system = "cubic"

\* ------------------------------------------------------------- claims: polar_indices
RECURSIVE SumDen(_, _)
\* the product of the denominators of the first k weights
SumDen(ws, k) == IF k = 0 THEN 1 ELSE SumDen(ws, k - 1) * ws[k].weight[2]
RECURSIVE SumNum(_, _)
\* the numerator of the sum of the first k weights over that product
SumNum(ws, k) ==
    IF k = 0 THEN 0 ELSE SumNum(ws, k - 1) * ws[k].weight[2] + ws[k].weight[1] * SumDen(ws, k - 1)

PolarEnded == call = "polar_indices" /\ pc \in {"done", "error"}

\* C4: polar_indices completes, and in its result every pair of an angular
\* bin and one of the outer - inner radial bins has a contributor of
\* positive weight and weights that sum to 1.
C4_EveryBinFilled ==
    PolarEnded =>
        /\ pc = "done"
        /\ \A bin \in (0..(nbins_angular - 1)) \X (0..(NbinsRadial - 1)) :
              /\ bin \in DOMAIN result
              /\ \E c \in DOMAIN result[bin] : result[bin][c].weight[1] > 0
              /\ SumNum(result[bin], Len(result[bin])) = SumDen(result[bin], Len(result[bin]))

=============================================================================
